---- MODULE Spec2Model ----
(***************************************************************************)
(* slim-rabbit: the Application (registration of middlewares, prefetch,    *)
(* connect, close), the per-message dispatch of the composed middleware    *)
(* chain, and the Context operations publish / sendToQueue / onerror.      *)
(*                                                                         *)
(* An await of the source is a step boundary: one action is the settling   *)
(* of the awaited operation together with the synchronous code that        *)
(* follows it up to the next await.                                        *)
(***************************************************************************)
EXTENDS Integers, Sequences, FiniteSets, TLC

VARIABLES
    middlewares,      \* app.middlewares: the registered handlers, by registration number
    errorListeners,   \* number of listeners of 'consumer:error'
    appContext,       \* names of the properties assigned on app.context
    connection,       \* app.connection: a transport handle or Undefined
    consumerChannel,  \* app.consumerChannel
    publisherChannel, \* app.publisherChannel
    consumerTag,      \* app.consumerTag
    transportOpen,    \* the handles the transport currently holds open
    subscribed,       \* the channel app.consumerChannel names holds a consume subscription
    composed,         \* the array compose() captured in messageHandler()
    events,           \* the lifecycle notifications emitted on the app, in order
    connectPc,        \* position of the connect() call
    connectCall,      \* what connect() was called with and on which app state
    connectResult,    \* outcome of the promise connect() returned
    startupError,     \* the error caught by connect()'s catch block
    closePc,          \* position of the close() call made by the catch block
    closeFailedOn,    \* the step of close() whose awaited close rejected
    unhandled,        \* errors that ended as unhandled promise rejections
    delivered,        \* number of messages the transport has delivered
    dispatches,       \* message -> the state of its dispatch (while the Context lives)
    pubCall,          \* the last publish / sendToQueue call made on a Context and its outcome
    pubLog,           \* the calls the publisher channel received, in order
    useCall,          \* the last use() call: its arguments, the sequence before it, its outcome
    prefetchOpts,     \* app.prefetchOpts
    prefetchCall,     \* the last prefetch() call: its arguments and its outcome
    qos,              \* the prefetch calls the consumer channels received, in order
    listened,         \* the arguments 'consumer:listen' was emitted with, in order
    connects,         \* number of connect() calls made so far
    closeCaller,      \* who called the close() in progress: connect()'s catch block or the application
    closeResult       \* outcome of the promise the last close() returned

vars == << middlewares, errorListeners, appContext, connection, consumerChannel,
           publisherChannel, consumerTag, transportOpen, subscribed, composed,
           events, connectPc, connectCall, connectResult, startupError, closePc,
           closeFailedOn, unhandled, delivered, dispatches, pubCall, pubLog,
           useCall, prefetchOpts, prefetchCall, qos, listened, connects,
           closeCaller, closeResult >>

appVars == << middlewares, errorListeners, appContext, useCall, prefetchOpts,
              prefetchCall >>
connVars == << connection, consumerChannel, publisherChannel, consumerTag,
               transportOpen, subscribed, composed, events, connectPc,
               connectCall, connectResult, startupError, closePc,
               closeFailedOn, unhandled, qos, listened, connects,
               closeCaller, closeResult >>
dispatchVars == << delivered, dispatches >>
pubVars == << pubCall, pubLog >>

(***************************************************************************)
(* Bounds of the model.                                                    *)
(***************************************************************************)
MaxHandlers == 3
MaxListeners == 2
MaxMessages == 2
MaxPublishes == 1
MaxArgs == 2
MaxConnects == 2

Undefined == "undefined"

\* The handles the transport returns to the application's first connect().
ConnHandle == "connection#1"
ConsumerHandle == "consumerChannel#1"
PublisherHandle == "publisherChannel#1"

Resolved == [state |-> "resolved"]
Rejected(err) == [state |-> "rejected", err |-> err]
Pending == [state |-> "pending"]
NotCalled == [state |-> "not called"]

(***************************************************************************)
(* A JavaScript value given to an operation that inspects it is a record   *)
(* with its kind in .type.                                                 *)
(***************************************************************************)
Str(chars) == [type |-> "string", chars |-> chars]
Num(n) == [type |-> "number", n |-> n]
Fun == [type |-> "function"]
Undef == [type |-> "undefined"]
Null == [type |-> "null"]
Bool(b) == [type |-> "boolean", b |-> b]
Obj(members) == [type |-> "object", members |-> members]  \* << <<key, value>>, ... >>
Buf(id, bytes) == [type |-> "buffer", id |-> id, bytes |-> bytes]

\* typeof v
TypeOf(v) == IF v.type \in {"object", "null", "buffer"} THEN "object" ELSE v.type

\* Buffer.isBuffer(v), v instanceof Buffer
IsBuffer(v) == v.type = "buffer"

TypeError(msg) == [kind |-> "TypeError", msg |-> msg]

(***************************************************************************)
(* Application: registration.                                              *)
(***************************************************************************)
\* The names an application may assign on app.context: "db" is a plain
\* extension; "headers" is one of the names Context.prototype defines with a
\* getter and no setter; "bufferFrom" is no name of Context.prototype.
ContextExtensions == {"db", "headers", "bufferFrom"}

\* delegates(...).getter(name): accessors without a setter on Context.prototype.
GetterOnly == {"fields", "properties", "headers", "consumerTag", "deliveryTag",
               "redelivered", "exchange", "routingKey"}

\* A dispatch whose handler awaits a promise that has not settled: one that
\* never settles ("hung"), or work of the handler that is still going on ("io").
Suspended(d) ==
    /\ d.outcome.state = "pending"
    /\ d.call = 0
    /\ d.stack # << >>
    /\ d.stack[Len(d.stack)].pc \in {"hung", "io"}

\* A dispatch loop that takes the next message only when no dispatch is left.
EventLoopFreeOneAtATime == DOMAIN dispatches = {}

\* The dispatch of a message runs in microtasks: once the consume callback has
\* been invoked it runs until it settles or suspends, before the event loop
\* runs any other callback (a registration, a step of connect() or close(),
\* another delivery). The record of a settled dispatch is dropped before the
\* next callback; a suspended dispatch stays, and holds nothing back.
EventLoopFree == \A m \in DOMAIN dispatches : Suspended(dispatches[m])

\* An argument of use() is named by a positive number when it is a function,
\* and is NotAFunction otherwise.
NotAFunction == 0
IsFunction(fn) == fn # NotAFunction

\* A use() that appends the arguments one by one while it checks them.
useResultAppendsWhileChecking(mws, args) ==
    LET bad == {k \in 1..Len(args) : ~IsFunction(args[k])} IN
    IF bad = {}
    THEN [threw |-> FALSE, middlewares |-> mws \o args]
    ELSE LET first == CHOOSE k \in bad : \A j \in bad : k <= j
         IN [threw |-> TRUE, err |-> TypeError("Middleware must be composed of functions!"),
             middlewares |-> mws \o SubSeq(args, 1, first - 1)]

\* use(...middlewares): every argument is checked first; then
\* this.middlewares = this.middlewares.concat(middlewares).
useResult(mws, args) ==
    IF \E k \in 1..Len(args) : ~IsFunction(args[k])
    THEN [threw |-> TRUE, err |-> TypeError("Middleware must be composed of functions!"),
          middlewares |-> mws]
    ELSE [threw |-> FALSE, middlewares |-> mws \o args]

\* A use() that appends in place (push) changes the array a composed handler
\* has captured, when that array is still the application's.
capturedAfterUsePush(captured, mws, args) ==
    IF captured # << >> /\ captured = mws THEN mws \o args ELSE captured

\* concat() returns a new array and leaves the one it is called on untouched:
\* the array a composed handler has captured is what it was.
capturedAfterUse(captured, mws, args) == captured

NoUse == [called |-> FALSE]

\* app.use(...args)
Use(args) ==
    /\ EventLoopFree
    /\ Len(middlewares) + Len(args) <= MaxHandlers
    /\ LET r == useResult(middlewares, args) IN
       /\ middlewares' = r.middlewares
       /\ useCall' = [called |-> TRUE, args |-> args, before |-> middlewares,
                      threw |-> r.threw]
       /\ composed' = IF r.threw THEN composed
                      ELSE capturedAfterUse(composed, middlewares, args)
    /\ UNCHANGED << errorListeners, appContext, prefetchOpts, prefetchCall >>
    /\ UNCHANGED << connection, consumerChannel, publisherChannel, consumerTag,
                    transportOpen, subscribed, events, connectPc, connectCall,
                    connectResult, startupError, closePc, closeFailedOn, unhandled,
                    qos, listened, connects, closeCaller, closeResult >>
    /\ UNCHANGED << dispatchVars, pubVars >>

NoPrefetch == [set |-> FALSE]

\* prefetch(count, global = false): the error it throws, or the options it records.
prefetchResult(count, global) ==
    LET g == IF global.type = "undefined" THEN Bool(FALSE) ELSE global IN
    IF TypeOf(count) # "number"
    THEN [threw |-> TRUE, err |-> TypeError("[count] must be a number.")]
    ELSE IF TypeOf(count) # "boolean"
    THEN [threw |-> TRUE, err |-> TypeError("[global] must be a boolean.")]
    ELSE [threw |-> FALSE, opts |-> [set |-> TRUE, count |-> count, global |-> g]]

\* app.prefetch(count, global)
Prefetch(count, global) ==
    /\ EventLoopFree
    /\ LET r == prefetchResult(count, global) IN
       /\ prefetchCall' = [called |-> TRUE, count |-> count, global |-> global,
                           threw |-> r.threw]
       /\ prefetchOpts' = IF r.threw THEN prefetchOpts ELSE r.opts
    /\ UNCHANGED << middlewares, errorListeners, appContext, useCall >>
    /\ UNCHANGED << connVars, dispatchVars, pubVars >>

\* app.context[name] = value
AssignContext(name) ==
    /\ EventLoopFree
    /\ name \notin appContext
    /\ appContext' = appContext \cup {name}
    /\ UNCHANGED << middlewares, errorListeners, useCall, prefetchOpts, prefetchCall >>
    /\ UNCHANGED << connVars, dispatchVars, pubVars >>

\* app.on('consumer:error', listener)
OnConsumerError ==
    /\ EventLoopFree
    /\ errorListeners < MaxListeners
    /\ errorListeners' = errorListeners + 1
    /\ UNCHANGED << middlewares, appContext, useCall, prefetchOpts, prefetchCall >>
    /\ UNCHANGED << connVars, dispatchVars, pubVars >>

(***************************************************************************)
(* Application.connect                                                     *)
(***************************************************************************)
NoError == [kind |-> "none"]
StartupError(at, by) == [kind |-> "startup", at |-> at, by |-> by]
ConfigError(msg) == [kind |-> "config", msg |-> msg]

\* connect() without the check for a 'consumer:error' listener.
ConnectPreconditionsNoListenerCheck(nMiddlewares, nListeners, url, socketOpts) ==
    IF nMiddlewares = 0 THEN ConfigError("At least one queue middleware is required.")
    ELSE IF url # "string" THEN ConfigError("[url] must be a string.")
    ELSE IF socketOpts # "object" THEN ConfigError("[socketOpts] must be an object.")
    ELSE NoError

\* The four checks that open connect(); NoError when all pass.
ConnectPreconditions(nMiddlewares, nListeners, url, socketOpts) ==
    IF nMiddlewares = 0 THEN ConfigError("At least one queue middleware is required.")
    ELSE IF nListeners = 0 THEN ConfigError("An error handler is required.")
    ELSE IF url # "string" THEN ConfigError("[url] must be a string.")
    ELSE IF socketOpts # "object" THEN ConfigError("[socketOpts] must be an object.")
    ELSE NoError

\* socketOpts = {} when the argument is left out.
DefaultObject(arg) == IF arg = "undefined" THEN "object" ELSE arg

\* The handle the transport returns for the resource of a kind opened by the
\* n-th connect() call.
HandleOf(kind, n) == kind \o "#" \o ToString(n)

HandleKindNames == {"connection", "consumerChannel", "publisherChannel"}

\* connection.on('close', ...) emits 'connection:close'; channel.on('close', ...)
\* emits `${key}:close`.
closeEvent(key) == key \o ":close"

\* The handles of the connection conn and of the channels opened on it.
OnConnection(conn) ==
    { h \in transportOpen :
        \E n \in 1..connects :
            /\ conn = HandleOf("connection", n)
            /\ \E kind \in HandleKindNames : h = HandleOf(kind, n) }

\* The body of connect(url, socketOpts) up to its first await: an argument is
\* given by its typeof.
ConnectCall(url, socketOpts) ==
    /\ connects' = connects + 1
    /\ connectCall' = [ called |-> TRUE, nMiddlewares |-> Len(middlewares), nListeners |-> errorListeners,
                        url |-> url, socketOpts |-> DefaultObject(socketOpts) ]
    /\ LET err == ConnectPreconditions(Len(middlewares), errorListeners,
                                       url, DefaultObject(socketOpts))
       IN IF err # NoError
          THEN /\ connectPc' = "done"
               /\ connectResult' = Rejected(err)
          ELSE /\ connectPc' = "createConnection"
               /\ connectResult' = Pending
    /\ UNCHANGED << connection, consumerChannel, publisherChannel, consumerTag,
                    transportOpen, subscribed, composed, events, startupError,
                    closePc, closeFailedOn, unhandled, qos, listened,
                    closeCaller, closeResult >>
    /\ UNCHANGED << appVars, dispatchVars, pubVars >>

\* The application's first connect(url, socketOpts).
Connect(url, socketOpts) ==
    /\ EventLoopFree
    /\ connectPc = "idle"
    /\ ConnectCall(url, socketOpts)

\* No close() is in progress.
CloseAtRest == closePc \in {"none", "done", "failed"}

\* connect(url, socketOpts) called again, once the earlier call has returned
\* and any close() has ended.
ConnectAgain(url, socketOpts) ==
    /\ EventLoopFree
    /\ connectPc = "done"
    /\ CloseAtRest
    /\ connects < MaxConnects
    /\ ConnectCall(url, socketOpts)

\* An awaited startup operation rejected: control passes to the catch block.
StartupFails(at, by) ==
    /\ startupError' = StartupError(at, by)
    /\ connectPc' = "catch"

\* this.connection = await this.createConnection(url, socketOpts)
CreateConnection ==
    /\ EventLoopFree
    /\ connectPc = "createConnection"
    /\ LET opened == HandleOf("connection", connects) IN
       \/ /\ StartupFails("createConnection", "transport")
          /\ UNCHANGED << connection, transportOpen, events >>
       \/ \* amqplib.connect resolved; a 'connection:created' listener throws
          /\ StartupFails("createConnection", "listener")
          /\ transportOpen' = transportOpen \cup {opened}
          /\ events' = Append(events, "connection:created")
          /\ UNCHANGED connection
       \/ /\ transportOpen' = transportOpen \cup {opened}
          /\ events' = Append(events, "connection:created")
          /\ connection' = opened
          /\ connectPc' = "createConsumerChannel"
          /\ UNCHANGED startupError
    /\ UNCHANGED << consumerChannel, publisherChannel, consumerTag, subscribed,
                    composed, connectCall, connectResult, closePc, closeFailedOn,
                    unhandled, qos, listened, connects, closeCaller, closeResult >>
    /\ UNCHANGED << appVars, dispatchVars, pubVars >>

\* if (this.prefetchOpts) this.consumerChannel.prefetch(count, global): the
\* prefetch calls the channel has received after this line.
applyPrefetch(calls, channel, opts) ==
    IF opts.set
    THEN Append(calls, [channel |-> channel, count |-> opts.count, global |-> opts.global])
    ELSE calls

\* this.consumerChannel = await this.createChannel(this.connection, 'consumer-channel')
\* and the prefetch line that follows it.
CreateConsumerChannel ==
    /\ EventLoopFree
    /\ connectPc = "createConsumerChannel"
    /\ LET opened == HandleOf("consumerChannel", connects) IN
       \/ /\ StartupFails("createConsumerChannel", "transport")
          /\ UNCHANGED << consumerChannel, transportOpen, events, qos, subscribed >>
       \/ /\ StartupFails("createConsumerChannel", "listener")
          /\ transportOpen' = transportOpen \cup {opened}
          /\ events' = Append(events, "consumer-channel:created")
          /\ UNCHANGED << consumerChannel, qos, subscribed >>
       \/ /\ transportOpen' = transportOpen \cup {opened}
          /\ events' = Append(events, "consumer-channel:created")
          /\ consumerChannel' = opened
          /\ subscribed' = FALSE
          /\ qos' = applyPrefetch(qos, opened, prefetchOpts)
          /\ connectPc' = "createPublisherChannel"
          /\ UNCHANGED startupError
    /\ UNCHANGED << connection, publisherChannel, consumerTag,
                    composed, connectCall, connectResult, closePc, closeFailedOn,
                    unhandled, listened, connects, closeCaller, closeResult >>
    /\ UNCHANGED << appVars, dispatchVars, pubVars >>

\* compose(this.middlewares) in messageHandler(): the composed handler runs over
\* the array it was given.
compose(mws) == mws

\* A messageHandler that composes the handlers in the opposite order.
messageHandlerChainReversed(mws) == [k \in 1..Len(mws) |-> mws[Len(mws) + 1 - k]]

\* const fn = compose(this.middlewares)
messageHandlerChain(mws) == compose(mws)

\* this.publisherChannel = await this.createChannel(...); then consume() runs up to
\* its await: handler = messageHandler(), and assertQueue is requested.
CreatePublisherChannel ==
    /\ EventLoopFree
    /\ connectPc = "createPublisherChannel"
    /\ LET opened == HandleOf("publisherChannel", connects) IN
       \/ /\ StartupFails("createPublisherChannel", "transport")
          /\ UNCHANGED << publisherChannel, transportOpen, events, composed >>
       \/ /\ StartupFails("createPublisherChannel", "listener")
          /\ transportOpen' = transportOpen \cup {opened}
          /\ events' = Append(events, "publisher-channel:created")
          /\ UNCHANGED << publisherChannel, composed >>
       \/ /\ transportOpen' = transportOpen \cup {opened}
          /\ events' = Append(events, "publisher-channel:created")
          /\ publisherChannel' = opened
          /\ composed' = messageHandlerChain(middlewares)
          /\ connectPc' = "assertQueue"
          /\ UNCHANGED startupError
    /\ UNCHANGED << connection, consumerChannel, consumerTag, subscribed,
                    connectCall, connectResult, closePc, closeFailedOn, unhandled,
                    qos, listened, connects, closeCaller, closeResult >>
    /\ UNCHANGED << appVars, dispatchVars, pubVars >>

\* await this.consumerChannel.assertQueue(...); then consume is requested.
AssertQueue ==
    /\ EventLoopFree
    /\ connectPc = "assertQueue"
    /\ \/ StartupFails("assertQueue", "transport")
       \/ /\ connectPc' = "consume"
          /\ UNCHANGED startupError
    /\ UNCHANGED << connection, consumerChannel, publisherChannel, consumerTag,
                    transportOpen, subscribed, composed, events, connectCall,
                    connectResult, closePc, closeFailedOn, unhandled,
                    qos, listened, connects, closeCaller, closeResult >>
    /\ UNCHANGED << appVars, dispatchVars, pubVars >>

\* The transport answers the consume request: from here on it may deliver.
Subscribe ==
    /\ EventLoopFree
    /\ connectPc = "consume"
    /\ \/ /\ StartupFails("consume", "transport")
          /\ UNCHANGED subscribed
       \/ /\ subscribed' = TRUE
          /\ connectPc' = "listen"
          /\ UNCHANGED startupError
    /\ UNCHANGED << connection, consumerChannel, publisherChannel, consumerTag,
                    transportOpen, composed, events, connectCall, connectResult,
                    closePc, closeFailedOn, unhandled,
                    qos, listened, connects, closeCaller, closeResult >>
    /\ UNCHANGED << appVars, dispatchVars, pubVars >>

\* this.queueName, set by the constructor.
QueueName == "test_queue"

\* The consumer tag the transport returns for the subscription of the n-th connect().
TagOf(n) == HandleOf("ctag", n)

\* this.consumerTag = await consume(); this.emit('consumer:listen', ...)
Listen ==
    /\ EventLoopFree
    /\ connectPc = "listen"
    /\ consumerTag' = TagOf(connects)
    /\ events' = Append(events, "consumer:listen")
    /\ listened' = Append(listened, << QueueName, consumerTag' >>)
    /\ \/ \* a 'consumer:listen' listener throws
          /\ StartupFails("consumer:listen", "listener")
          /\ UNCHANGED connectResult
       \/ /\ connectPc' = "done"
          /\ connectResult' = Resolved
          /\ UNCHANGED startupError
    /\ UNCHANGED << connection, consumerChannel, publisherChannel, transportOpen,
                    subscribed, composed, connectCall, closePc, closeFailedOn,
                    unhandled, qos, connects, closeCaller, closeResult >>
    /\ UNCHANGED << appVars, dispatchVars, pubVars >>

\* catch (err) { this.close().catch((closeError) => { throw err; }); }
\* What the promise returned by connect() settles with once the catch block ran:
\* the block neither awaits nor returns the promise it builds and throws nothing.
connectCatchResult(err) == Resolved

\* The catch block: close() is called and runs up to its first await.
ConnectCatch ==
    /\ EventLoopFree
    /\ connectPc = "catch"
    /\ closePc' = "consumerChannel"
    /\ closeCaller' = "catch"
    /\ closeResult' = Pending
    /\ connectResult' = connectCatchResult(startupError)
    /\ connectPc' = "done"
    /\ UNCHANGED << connection, consumerChannel, publisherChannel, consumerTag,
                    transportOpen, subscribed, composed, events, connectCall,
                    startupError, closeFailedOn, unhandled, qos, listened, connects >>
    /\ UNCHANGED << appVars, dispatchVars, pubVars >>

(***************************************************************************)
(* Application.close, called by connect()'s catch block or by the          *)
(* application.                                                            *)
(***************************************************************************)
CloseError(step) == [kind |-> "close", at |-> step]

\* app.close() called by the application, while no connect() and no other
\* close() is in progress; it runs up to its first await.
Close ==
    /\ EventLoopFree
    /\ connectPc \in {"idle", "done"}
    /\ CloseAtRest
    /\ closePc' = "consumerChannel"
    /\ closeCaller' = "application"
    /\ closeResult' = Pending
    /\ UNCHANGED << connection, consumerChannel, publisherChannel, consumerTag,
                    transportOpen, subscribed, composed, events, connectPc,
                    connectCall, connectResult, startupError, closeFailedOn,
                    unhandled, qos, listened, connects >>
    /\ UNCHANGED << appVars, dispatchVars, pubVars >>

\* A close() of a handle rejected: close() rejects. When the catch block made the
\* call, the handler given to .catch rethrows the startup error into a promise
\* nobody holds.
CloseFails ==
    /\ closePc' = "failed"
    /\ closeFailedOn' = closePc
    /\ closeResult' = Rejected(CloseError(closePc))
    /\ unhandled' = IF closeCaller = "catch" THEN unhandled \cup {startupError}
                    ELSE unhandled

\* if (this.consumerChannel) await this.consumerChannel.close(); delete this.consumerChannel
CloseConsumerChannel ==
    /\ EventLoopFree
    /\ closePc = "consumerChannel"
    /\ IF consumerChannel = Undefined
       THEN /\ closePc' = "publisherChannel"
            /\ UNCHANGED << consumerChannel, transportOpen, subscribed, events,
                            unhandled, closeFailedOn, closeResult >>
       ELSE \/ /\ CloseFails
               /\ UNCHANGED << consumerChannel, transportOpen, subscribed, events >>
            \/ /\ transportOpen' = transportOpen \ {consumerChannel}
               /\ subscribed' = FALSE
               /\ events' = Append(events, closeEvent("consumer-channel"))
               /\ consumerChannel' = Undefined
               /\ closePc' = "publisherChannel"
               /\ UNCHANGED << unhandled, closeFailedOn, closeResult >>
    /\ UNCHANGED << connection, publisherChannel, consumerTag, composed,
                    connectPc, connectCall, connectResult, startupError,
                    qos, listened, connects, closeCaller >>
    /\ UNCHANGED << appVars, dispatchVars, pubVars >>

\* if (this.publisherChannel) await this.publisherChannel.close(); delete this.publisherChannel
ClosePublisherChannel ==
    /\ EventLoopFree
    /\ closePc = "publisherChannel"
    /\ IF publisherChannel = Undefined
       THEN /\ closePc' = "connection"
            /\ UNCHANGED << publisherChannel, transportOpen, events, unhandled,
                            closeFailedOn, closeResult >>
       ELSE \/ /\ CloseFails
               /\ UNCHANGED << publisherChannel, transportOpen, events >>
            \/ /\ transportOpen' = transportOpen \ {publisherChannel}
               /\ events' = Append(events, closeEvent("publisher-channel"))
               /\ publisherChannel' = Undefined
               /\ closePc' = "connection"
               /\ UNCHANGED << unhandled, closeFailedOn, closeResult >>
    /\ UNCHANGED << connection, consumerChannel, consumerTag, subscribed, composed,
                    connectPc, connectCall, connectResult, startupError,
                    qos, listened, connects, closeCaller >>
    /\ UNCHANGED << appVars, dispatchVars, pubVars >>

\* if (this.connection) await this.connection.close(); delete this.connection
\* Closing a connection closes the channels opened on it.
CloseConnection ==
    /\ EventLoopFree
    /\ closePc = "connection"
    /\ IF connection = Undefined
       THEN /\ closePc' = "done"
            /\ closeResult' = Resolved
            /\ UNCHANGED << connection, transportOpen, subscribed, events, unhandled, closeFailedOn >>
       ELSE \/ /\ CloseFails
               /\ UNCHANGED << connection, transportOpen, subscribed, events >>
            \/ /\ transportOpen' = transportOpen \ OnConnection(connection)
               /\ subscribed' = FALSE
               /\ events' = Append(events, closeEvent("connection"))
               /\ connection' = Undefined
               /\ closePc' = "done"
               /\ closeResult' = Resolved
               /\ UNCHANGED << unhandled, closeFailedOn >>
    /\ UNCHANGED << consumerChannel, publisherChannel, consumerTag, composed,
                    connectPc, connectCall, connectResult, startupError,
                    qos, listened, connects, closeCaller >>
    /\ UNCHANGED << appVars, dispatchVars, pubVars >>

(***************************************************************************)
(* The per-message dispatch: messageHandler, the composed chain, Context.  *)
(***************************************************************************)
\* What a handler does when it is invoked:
\*   wrap      async (ctx, next) => { pre; await next(); post }
\*   terminal  async (ctx) => { work }              never calls next
\*   throw     (ctx, next) => { throw e }           a synchronous throw
\*   reject    async (ctx, next) => { throw e }     a rejected promise
\*   twice     async (ctx, next) => { pre; await next(); await next(); post }
\*   catch     async (ctx, next) => { pre; try { await next() } catch (e) {}; post }
\*   hang      async (ctx, next) => { await new Promise(() => {}) }   never settles
\*   ack       async (ctx) => { await work(); ctx.ack(ctx.message) }
\*   send      async (ctx) => { await work(); await ctx.sendToQueue(queue, content) }
HandlerKinds == {"wrap", "terminal", "throw", "reject", "twice", "catch"}
CallsNext == {"wrap", "twice", "catch"}

NoRet == [settled |-> FALSE]
Ok == [settled |-> TRUE, ok |-> TRUE]
Err(e) == [settled |-> TRUE, ok |-> FALSE, err |-> e]
Failed(r) == r.settled /\ ~r.ok

MultipleNextError == [kind |-> "compose", msg |-> "next() called multiple times"]
HandlerError(h, how) == [kind |-> "handler", h |-> h, how |-> how]
ListenerError == [kind |-> "listener"]
AssignTypeError == [kind |-> "TypeError", msg |-> "Cannot set property which has only a getter"]

\* new Context(app, message): Object.assign(this, app.context) sets each name of
\* app.context on the new object; setting a name that Context.prototype defines
\* with a getter only throws (strict mode).
ContextConstructorThrows(extensions) == extensions \cap GetterOnly # {}

NoContext == [message |-> 0]

\* A constructor that does not copy app.publisherChannel.
NewContextWithoutPublisher(m) ==
    [ message |-> m, connection |-> connection, consumerChannel |-> consumerChannel,
      publisherChannel |-> Undefined, state |-> {}, own |-> appContext ]

NewContext(m) ==
    [ message |-> m, connection |-> connection, consumerChannel |-> consumerChannel,
      publisherChannel |-> publisherChannel, state |-> {}, own |-> appContext ]

\* A dispatch that still has code to run.
Runnable(d) == d.outcome.state = "pending"

\* The transport invokes the consume callback with a message: the Context is
\* built and fn(context) is called, which calls dispatch(0). ops is the record
\* of the operations the dispatch performs on the channels its Context holds.
Deliver ==
    /\ subscribed
    /\ delivered < MaxMessages
    /\ EventLoopFree
    /\ delivered' = delivered + 1
    /\ LET m == delivered + 1
           threw == ContextConstructorThrows(appContext)
       IN dispatches' = dispatches @@ (m :>
            [ ctx |-> IF threw THEN NoContext ELSE NewContext(m),
              index |-> 0,
              call |-> IF threw THEN 0 ELSE 1,
              stack |-> << >>,
              ret |-> NoRet,
              kinds |-> << >>,
              trace |-> << >>,
              raised |-> << >>,
              nexts |-> << >>,
              refused |-> << >>,
              ops |-> << >>,
              chainResult |-> NoRet,
              sink |-> << >>,
              listenerCalls |-> 0,
              onerrorThrew |-> FALSE,
              outcome |-> IF threw THEN Rejected(AssignTypeError) ELSE Pending ])
    /\ UNCHANGED << appVars, connVars, pubVars >>

\* koa-compose, dispatch(i): if (i <= index) reject 'next() called multiple times'
\* (positions are counted from 1 here, index starts at 0).
nextCalledAgain(i, index) == i <= index

\* dispatch.bind(null, i + 1): the continuation handed to the handler at position i.
nextOf(i) == i + 1

Top(d) == d.stack[Len(d.stack)]
Pop(d) == SubSeq(d.stack, 1, Len(d.stack) - 1)
SetTop(d, f) == [d.stack EXCEPT ![Len(d.stack)] = f]

\* dispatch(i) refuses a second call of the same continuation.
DispatchRejects(m) ==
    /\ m \in DOMAIN dispatches
    /\ LET d == dispatches[m] IN
       /\ d.call > 0
       /\ nextCalledAgain(d.call, d.index)
       /\ dispatches' = [dispatches EXCEPT ![m] =
              [d EXCEPT !.call = 0,
                        !.ret = Err(MultipleNextError),
                        !.refused = Append(d.refused, Top(d).h)]]
    /\ UNCHANGED << delivered, appVars, connVars, pubVars >>

\* dispatch(i) past the last handler: fn is undefined, Promise.resolve().
DispatchPastEnd(m) ==
    /\ m \in DOMAIN dispatches
    /\ LET d == dispatches[m] IN
       /\ d.call > 0
       /\ ~nextCalledAgain(d.call, d.index)
       /\ d.call > Len(composed)
       /\ dispatches' = [dispatches EXCEPT ![m] =
              [d EXCEPT !.call = 0, !.index = d.call, !.ret = Ok]]
    /\ UNCHANGED << delivered, appVars, connVars, pubVars >>

\* dispatch(i) invokes handler i with the context and its continuation; the
\* handler runs its code up to its first await, return or throw.
DispatchEnters(m, kind) ==
    /\ m \in DOMAIN dispatches
    /\ LET d == dispatches[m] IN
       /\ d.call > 0
       /\ ~nextCalledAgain(d.call, d.index)
       /\ d.call <= Len(composed)
       /\ LET h == composed[d.call] IN
          dispatches' = [dispatches EXCEPT ![m] =
              [d EXCEPT !.call = 0,
                        !.index = d.call,
                        !.ret = NoRet,
                        !.stack = Append(d.stack, [h |-> h, i |-> d.call, kind |-> kind, pc |-> "pre"]),
                        !.kinds = Append(d.kinds, [h |-> h, kind |-> kind]),
                        !.trace = Append(d.trace, << "entry", h >>)]]
    /\ UNCHANGED << delivered, appVars, connVars, pubVars >>

\* await next(): the handler on top calls its continuation.
HandlerCallsNext(m) ==
    /\ m \in DOMAIN dispatches
    /\ LET d == dispatches[m] IN
       /\ d.call = 0
       /\ d.stack # << >>
       /\ LET f == Top(d) IN
          /\ \/ f.pc = "pre" /\ f.kind \in CallsNext
             \/ f.pc = "await1" /\ f.kind = "twice" /\ d.ret = Ok
          /\ dispatches' = [dispatches EXCEPT ![m] =
                [d EXCEPT !.call = nextOf(f.i),
                          !.ret = NoRet,
                          !.nexts = Append(d.nexts, f.h),
                          !.stack = SetTop(d, [f EXCEPT !.pc =
                                       IF f.pc = "pre" THEN "await1" ELSE "await2"])]]
    /\ UNCHANGED << delivered, appVars, connVars, pubVars >>

\* A handler that does not call next returns: its promise resolves.
HandlerReturnsWithoutNext(m) ==
    /\ m \in DOMAIN dispatches
    /\ LET d == dispatches[m] IN
       /\ d.call = 0
       /\ d.stack # << >>
       /\ Top(d).pc = "pre"
       /\ Top(d).kind = "terminal"
       /\ dispatches' = [dispatches EXCEPT ![m] =
              [d EXCEPT !.stack = Pop(d), !.ret = Ok]]
    /\ UNCHANGED << delivered, appVars, connVars, pubVars >>

\* A handler fails: a synchronous throw is caught by dispatch's try/catch and
\* becomes Promise.reject(err); an async handler's throw rejects its promise.
HandlerFails(m) ==
    /\ m \in DOMAIN dispatches
    /\ LET d == dispatches[m] IN
       /\ d.call = 0
       /\ d.stack # << >>
       /\ Top(d).pc = "pre"
       /\ Top(d).kind \in {"throw", "reject"}
       /\ LET e == HandlerError(Top(d).h, Top(d).kind) IN
          dispatches' = [dispatches EXCEPT ![m] =
              [d EXCEPT !.stack = Pop(d),
                        !.ret = Err(e),
                        !.raised = Append(d.raised, [h |-> Top(d).h, err |-> e,
                                                     at |-> Len(d.trace)])]]
    /\ UNCHANGED << delivered, appVars, connVars, pubVars >>

\* A handler awaits a promise that never settles: its dispatch is suspended for good.
HandlerHangs(m) ==
    /\ m \in DOMAIN dispatches
    /\ LET d == dispatches[m] IN
       /\ d.call = 0
       /\ d.stack # << >>
       /\ Top(d).pc = "pre"
       /\ Top(d).kind = "hang"
       /\ dispatches' = [dispatches EXCEPT ![m] =
              [d EXCEPT !.stack = SetTop(d, [Top(d) EXCEPT !.pc = "hung"])]]
    /\ UNCHANGED << delivered, appVars, connVars, pubVars >>

\* The awaited next() resolved and the handler has no further next() to call: it
\* runs its post-next code and returns.
HandlerResumes(m) ==
    /\ m \in DOMAIN dispatches
    /\ LET d == dispatches[m] IN
       /\ d.call = 0
       /\ d.stack # << >>
       /\ d.ret = Ok
       /\ LET f == Top(d) IN
          /\ \/ f.pc = "await1" /\ f.kind \in {"wrap", "catch"}
             \/ f.pc = "await2"
          /\ dispatches' = [dispatches EXCEPT ![m] =
                [d EXCEPT !.stack = Pop(d),
                          !.trace = Append(d.trace, << "exit", f.h >>)]]
    /\ UNCHANGED << delivered, appVars, connVars, pubVars >>

\* The awaited next() rejected: await throws inside the handler. A handler
\* without a try/catch around it rejects with the same error.
HandlerPropagates(m) ==
    /\ m \in DOMAIN dispatches
    /\ LET d == dispatches[m] IN
       /\ d.call = 0
       /\ d.stack # << >>
       /\ Failed(d.ret)
       /\ Top(d).pc \in {"await1", "await2"}
       /\ Top(d).kind # "catch"
       /\ dispatches' = [dispatches EXCEPT ![m] = [d EXCEPT !.stack = Pop(d)]]
    /\ UNCHANGED << delivered, appVars, connVars, pubVars >>

\* The awaited next() rejected inside try { } catch (e) { }: the handler goes on
\* with its post-next code and returns.
HandlerCatches(m) ==
    /\ m \in DOMAIN dispatches
    /\ LET d == dispatches[m] IN
       /\ d.call = 0
       /\ d.stack # << >>
       /\ Failed(d.ret)
       /\ Top(d).pc = "await1"
       /\ Top(d).kind = "catch"
       /\ dispatches' = [dispatches EXCEPT ![m] =
              [d EXCEPT !.stack = Pop(d),
                        !.ret = Ok,
                        !.trace = Append(d.trace, << "exit", Top(d).h >>)]]
    /\ UNCHANGED << delivered, appVars, connVars, pubVars >>

\* An onerror that emits the error without the Context.
onerrorWithoutContext(err, ctx) ==
    << [event |-> "consumer:error", err |-> err, ctx |-> NoContext] >>

\* Context.onerror(err): this.app.emit('consumer:error', err, this).
onerror(err, ctx) == << [event |-> "consumer:error", err |-> err, ctx |-> ctx] >>

\* A catch block that drops the error.
messageHandlerCatchSwallows(err, ctx) == << >>

\* messageHandler: catch (err) { context.onerror(err); }
messageHandlerCatch(err, ctx) == onerror(err, ctx)

\* A messageHandler that reports to onerror after a resolved chain as well.
messageHandlerThenReports(ctx) == onerror(NoError, ctx)

\* messageHandler: what follows a resolved await fn(context) inside the try
\* block: nothing is emitted.
messageHandlerThen(ctx) == << >>

\* await fn(context) resolved: the callback's promise resolves.
ChainSucceeds(m) ==
    /\ m \in DOMAIN dispatches
    /\ LET d == dispatches[m] IN
       /\ Runnable(d)
       /\ d.call = 0
       /\ d.stack = << >>
       /\ d.ret = Ok
       /\ dispatches' = [dispatches EXCEPT ![m] =
              [d EXCEPT !.chainResult = Ok,
                        !.sink = d.sink \o messageHandlerThen(d.ctx),
                        !.outcome = Resolved]]
    /\ UNCHANGED << delivered, appVars, connVars, pubVars >>

\* await fn(context) rejected: the catch block runs. emit calls the listeners of
\* 'consumer:error' in order; a listener that throws ends emit, and the throw
\* leaves onerror, the catch block and the async callback. thrower is the
\* listener that throws, 0 when none does.
ChainFails(m, thrower) ==
    /\ m \in DOMAIN dispatches
    /\ thrower \in 0..errorListeners
    /\ LET d == dispatches[m] IN
       /\ Runnable(d)
       /\ d.call = 0
       /\ d.stack = << >>
       /\ Failed(d.ret)
       /\ LET emitted == messageHandlerCatch(d.ret.err, d.ctx)
              threw == emitted # << >> /\ thrower > 0
          IN dispatches' = [dispatches EXCEPT ![m] =
              [d EXCEPT !.chainResult = d.ret,
                        !.sink = d.sink \o emitted,
                        !.listenerCalls = IF emitted = << >> THEN 0
                                          ELSE IF thrower > 0 THEN thrower
                                          ELSE errorListeners,
                        !.onerrorThrew = threw,
                        !.outcome = IF threw THEN Rejected(ListenerError) ELSE Resolved]]
    /\ UNCHANGED << delivered, appVars, connVars, pubVars >>

\* The callback's promise has settled: the Context is dropped.
Discard(m) ==
    /\ m \in DOMAIN dispatches
    /\ ~Runnable(dispatches[m])
    /\ dispatches' = [k \in DOMAIN dispatches \ {m} |-> dispatches[k]]
    /\ UNCHANGED << delivered, appVars, connVars, pubVars >>

(***************************************************************************)
(* Context.publish, Context.sendToQueue, Context.bufferFrom.               *)
(*                                                                         *)
(* A text is the sequence of its code points, a buffer the sequence of its *)
(* bytes.                                                                  *)
(***************************************************************************)
RECURSIVE Flatten(_)
Flatten(seqs) == IF seqs = << >> THEN << >> ELSE Head(seqs) \o Flatten(Tail(seqs))

\* The decimal digits of a natural number, as text.
RECURSIVE Digits(_)
Digits(n) == IF n < 10 THEN << 48 + n >> ELSE Digits(n \div 10) \o << 48 + (n % 10) >>

\* A JSON string literal: quotes around the text, '"' and '\' escaped.
Quoted(chars) ==
    << 34 >> \o Flatten([k \in 1..Len(chars) |->
                  IF chars[k] \in {34, 92} THEN << 92, chars[k] >> ELSE << chars[k] >>])
             \o << 34 >>

\* Joins texts with ','.
RECURSIVE Joined(_)
Joined(parts) ==
    IF parts = << >> THEN << >>
    ELSE IF Len(parts) = 1 THEN parts[1]
    ELSE parts[1] \o << 44 >> \o Joined(Tail(parts))

\* JSON.stringify(v) for null, numbers, strings and objects of such members.
RECURSIVE Stringify(_)
Stringify(v) ==
    CASE v.type = "null" -> << 110, 117, 108, 108 >>
      [] v.type = "number" -> Digits(v.n)
      [] v.type = "string" -> Quoted(v.chars)
      [] v.type = "object" ->
            << 123 >>
            \o Joined([k \in 1..Len(v.members) |->
                   Quoted(v.members[k][1]) \o << 58 >> \o Stringify(v.members[k][2])])
            \o << 125 >>

\* `${data}` for a string or a number.
TemplateString(v) == IF v.type = "string" THEN v.chars ELSE Digits(v.n)

\* Buffer.from(string): the UTF-8 bytes of the text (code points below 2048).
Utf8(chars) ==
    Flatten([k \in 1..Len(chars) |->
        IF chars[k] < 128 THEN << chars[k] >>
        ELSE << 192 + (chars[k] \div 64), 128 + (chars[k] % 64) >>])

\* static bufferFrom(data); a buffer it allocates has id 0.
bufferFrom(data) ==
    IF IsBuffer(data) THEN data
    ELSE LET string == IF TypeOf(data) = "object" THEN Stringify(data)
                       ELSE TemplateString(data)
         IN Buf(0, Utf8(string))

\* The methods class Context declares on its prototype; bufferFrom is declared
\* static, a property of the class and not of its instances.
PrototypeMethods == {"publish", "sendToQueue", "onerror"}
StaticMethods == {"bufferFrom"}
DelegatedMethods == {"ack", "ackAll", "nack", "nackAll", "reject"}

\* this[name] on a Context: an own property (assigned from app.context), else a
\* member of Context.prototype, else undefined.
Lookup(own, name) ==
    IF name \in own THEN "own"
    ELSE IF name \in PrototypeMethods \cup DelegatedMethods \cup GetterOnly \cup {"content"}
    THEN "prototype"
    ELSE Undefined

\* this.bufferFrom(content) inside publish / sendToQueue: calling undefined
\* throws; an application that assigned app.context.bufferFrom is taken to have
\* assigned Context.bufferFrom.
thisBufferFrom(own, content) ==
    IF Lookup(own, "bufferFrom") = Undefined
    THEN [threw |-> TRUE, err |-> TypeError("this.bufferFrom is not a function")]
    ELSE [threw |-> FALSE, value |-> bufferFrom(content)]

\* options = {} when the argument is left out.
DefaultOptions(options) == IF options.type = "undefined" THEN Obj(<< >>) ELSE options

ContentAccepted(content) ==
    TypeOf(content) = "string" \/ TypeOf(content) = "object" \/ IsBuffer(content)

\* async publish(exchange, routingKey, content, options = {}): the error it
\* rejects with, or the call it makes on the publisher channel.
publish(own, exchange, routingKey, content, options) ==
    IF TypeOf(exchange) # "string"
    THEN [threw |-> TRUE, err |-> TypeError("[exchange] must be a string.")]
    ELSE IF TypeOf(routingKey) # "string"
    THEN [threw |-> TRUE, err |-> TypeError("[routingKey] must be a string.")]
    ELSE IF ~ContentAccepted(content)
    THEN [threw |-> TRUE, err |-> TypeError("[content] must be a string, object or an instance of Buffer.")]
    ELSE IF TypeOf(DefaultOptions(options)) # "object"
    THEN [threw |-> TRUE, err |-> TypeError("[options] must be an object.")]
    ELSE LET b == thisBufferFrom(own, content) IN
         IF b.threw THEN [threw |-> TRUE, err |-> b.err]
         ELSE [threw |-> FALSE,
               call |-> [op |-> "publish", exchange |-> exchange, routingKey |-> routingKey,
                         content |-> b.value, options |-> DefaultOptions(options)]]

\* async sendToQueue(queue, content, options = {})
sendToQueue(own, queue, content, options) ==
    IF TypeOf(queue) # "string"
    THEN [threw |-> TRUE, err |-> TypeError("[queue] must be a string")]
    ELSE IF ~ContentAccepted(content)
    THEN [threw |-> TRUE, err |-> TypeError("[content] must be a string, object or an instance of Buffer.")]
    ELSE IF TypeOf(DefaultOptions(options)) # "object"
    THEN [threw |-> TRUE, err |-> TypeError("[options] must be an object.")]
    ELSE LET b == thisBufferFrom(own, content) IN
         IF b.threw THEN [threw |-> TRUE, err |-> b.err]
         ELSE [threw |-> FALSE,
               call |-> [op |-> "sendToQueue", queue |-> queue,
                         content |-> b.value, options |-> DefaultOptions(options)]]

\* A call of ctx.publish / ctx.sendToQueue settles: with the TypeError, or with
\* what the publisher channel's operation returned (chResult).
PublishSettles(m, op, args, r, chResult) ==
    /\ pubCall' = [ op |-> op, ctx |-> m, args |-> args,
                    n |-> IF pubCall.op = "none" THEN 1 ELSE pubCall.n + 1,
                    logBefore |-> Len(pubLog),
                    outcome |-> IF r.threw THEN [state |-> "rejected", err |-> r.err]
                                ELSE [state |-> "resolved", value |-> chResult] ]
    /\ pubLog' = IF r.threw THEN pubLog
                 ELSE Append(pubLog, [call |-> r.call, result |-> chResult])

CallsMade == IF pubCall.op = "none" THEN 0 ELSE pubCall.n

\* ctx.publish(exchange, routingKey, content, options) on the Context of message m
ContextPublish(m, exchange, routingKey, content, options, chResult) ==
    /\ m \in DOMAIN dispatches
    /\ dispatches[m].ctx.message = m
    /\ CallsMade < MaxPublishes
    /\ LET r == publish(dispatches[m].ctx.own, exchange, routingKey, content, options)
       IN /\ (r.threw => chResult = TRUE)
          /\ PublishSettles(m, "publish", << exchange, routingKey, content, options >>,
                            r, chResult)
    /\ UNCHANGED << appVars, connVars, dispatchVars >>

\* ctx.sendToQueue(queue, content, options) on the Context of message m
ContextSendToQueue(m, queue, content, options, chResult) ==
    /\ m \in DOMAIN dispatches
    /\ dispatches[m].ctx.message = m
    /\ CallsMade < MaxPublishes
    /\ LET r == sendToQueue(dispatches[m].ctx.own, queue, content, options)
       IN /\ (r.threw => chResult = TRUE)
          /\ PublishSettles(m, "sendToQueue", << queue, content, options >>, r, chResult)
    /\ UNCHANGED << appVars, connVars, dispatchVars >>

\* The values the calls are tried with.
TextHi == << 104, 105 >>
TextCafe == << 99, 97, 102, 233 >>
NameValues == { Str(<< 113 >>), Num(7) }
ContentValues == { Str(TextHi), Str(TextCafe),
                   Obj(<< << << 97 >>, Num(1) >> >>),
                   Obj(<< << << 97 >>, Str(<< 34, 120 >>) >>, << << 98 >>, Null >> >>),
                   Null, Buf(1, << 0, 255 >>), Fun, Num(12) }
OptionValues == { Undef, Obj(<< >>), Str(<< 120 >>), Null }

(***************************************************************************)
(* Handlers that use their Context once work they awaited has settled.     *)
(***************************************************************************)
ChannelError(op) == [kind |-> "channel", op |-> op]

\* An operation performed on a channel a Context holds: whether the transport
\* still held that channel open, and whether close() had closed both channels
\* of the Context by then.
ChannelOp(op, channel, ctx) ==
    [ op |-> op, channel |-> channel,
      open |-> channel \in transportOpen,
      afterClose |-> {ctx.consumerChannel, ctx.publisherChannel} \cap transportOpen = {} ]

\* delegates(prototype, 'consumerChannel').method('ack'): ctx.ack(message) is
\* this.consumerChannel.ack(message), on the channel the constructor copied.
ack(ctx, message) == ChannelOp("ack", ctx.consumerChannel, ctx)

\* return this.publisherChannel.sendToQueue(queue, content, options)
publisherChannelSendToQueue(ctx) == ChannelOp("sendToQueue", ctx.publisherChannel, ctx)

\* await work(): the handler on top starts its work and is suspended.
HandlerAwaitsWork(m) ==
    /\ m \in DOMAIN dispatches
    /\ LET d == dispatches[m] IN
       /\ d.call = 0
       /\ d.stack # << >>
       /\ Top(d).pc = "pre"
       /\ Top(d).kind \in {"ack", "send"}
       /\ dispatches' = [dispatches EXCEPT ![m] =
              [d EXCEPT !.stack = SetTop(d, [Top(d) EXCEPT !.pc = "io"])]]
    /\ UNCHANGED << delivered, appVars, connVars, pubVars >>

\* The work settled: the event loop resumes the handler, which calls
\* ctx.ack(ctx.message) and returns. chThrows: the channel's ack threw.
HandlerAcksAfterWork(m, chThrows) ==
    /\ EventLoopFree
    /\ m \in DOMAIN dispatches
    /\ LET d == dispatches[m] IN
       /\ d.call = 0
       /\ d.stack # << >>
       /\ Top(d).pc = "io"
       /\ Top(d).kind = "ack"
       /\ LET e == ChannelError("ack") IN
          dispatches' = [dispatches EXCEPT ![m] =
              [d EXCEPT !.stack = Pop(d),
                        !.ret = IF chThrows THEN Err(e) ELSE Ok,
                        !.ops = Append(d.ops, ack(d.ctx, m)),
                        !.raised = IF chThrows
                                   THEN Append(d.raised, [h |-> Top(d).h, err |-> e,
                                                          at |-> Len(d.trace)])
                                   ELSE d.raised]]
    /\ UNCHANGED << delivered, appVars, connVars, pubVars >>

\* The queue and the content the "send" handler passes.
SendQueue == Str(<< 113 >>)
SendContent == Str(TextHi)

\* The work settled: the event loop resumes the handler, which calls
\* ctx.sendToQueue(queue, content) and awaits it. chResult is what the publisher
\* channel's sendToQueue returned; chThrows: it threw instead.
HandlerSendsAfterWork(m, chResult, chThrows) ==
    /\ EventLoopFree
    /\ m \in DOMAIN dispatches
    /\ LET d == dispatches[m] IN
       /\ d.call = 0
       /\ d.stack # << >>
       /\ Top(d).pc = "io"
       /\ Top(d).kind = "send"
       /\ LET r == sendToQueue(d.ctx.own, SendQueue, SendContent, Undef)
              settled == IF ~r.threw /\ chThrows
                         THEN [threw |-> TRUE, err |-> ChannelError("sendToQueue")]
                         ELSE r
          IN /\ (r.threw => ~chThrows)
             /\ (settled.threw => chResult = TRUE)
             /\ PublishSettles(m, "sendToQueue", << SendQueue, SendContent, Undef >>,
                               settled, chResult)
             /\ dispatches' = [dispatches EXCEPT ![m] =
                  [d EXCEPT !.stack = Pop(d),
                            !.ret = IF settled.threw THEN Err(settled.err) ELSE Ok,
                            !.ops = IF r.threw THEN d.ops
                                    ELSE Append(d.ops, publisherChannelSendToQueue(d.ctx)),
                            !.raised = IF settled.threw
                                       THEN Append(d.raised, [h |-> Top(d).h,
                                                              err |-> settled.err,
                                                              at |-> Len(d.trace)])
                                       ELSE d.raised]]
    /\ UNCHANGED << delivered, appVars, connVars >>

(***************************************************************************)
(* The application's life: registration, connect, deliveries.              *)
(***************************************************************************)
ArgTypes == {"string", "number"}
OptTypes == {"undefined", "object", "string"}
Messages == 1..MaxMessages

Init ==
    /\ middlewares = << >>
    /\ errorListeners = 0
    /\ appContext = {}
    /\ connection = Undefined
    /\ consumerChannel = Undefined
    /\ publisherChannel = Undefined
    /\ consumerTag = Undefined
    /\ transportOpen = {}
    /\ subscribed = FALSE
    /\ composed = << >>
    /\ events = << >>
    /\ connectPc = "idle"
    /\ connectCall = [called |-> FALSE]
    /\ connectResult = NotCalled
    /\ startupError = NoError
    /\ closePc = "none"
    /\ closeFailedOn = "none"
    /\ unhandled = {}
    /\ delivered = 0
    /\ dispatches = << >>
    /\ pubCall = [op |-> "none"]
    /\ pubLog = << >>
    /\ useCall = NoUse
    /\ prefetchOpts = NoPrefetch
    /\ prefetchCall = [called |-> FALSE]
    /\ qos = << >>
    /\ listened = << >>
    /\ connects = 0
    /\ closeCaller = "none"
    /\ closeResult = NotCalled

\* Spec: handlers are registered one function at a time, each a new function,
\* named by its registration number.
Next ==
    \/ Use(<< Len(middlewares) + 1 >>)
    \/ OnConsumerError
    \/ \E name \in {"headers"} : AssignContext(name)
    \/ \E url \in ArgTypes, socketOpts \in OptTypes : Connect(url, socketOpts)
    \/ CreateConnection
    \/ CreateConsumerChannel
    \/ CreatePublisherChannel
    \/ AssertQueue
    \/ Subscribe
    \/ Listen
    \/ ConnectCatch
    \/ CloseConsumerChannel
    \/ ClosePublisherChannel
    \/ CloseConnection
    \/ Deliver
    \/ \E m \in Messages :
         \/ DispatchRejects(m)
         \/ DispatchPastEnd(m)
         \/ \E kind \in HandlerKinds : DispatchEnters(m, kind)
         \/ HandlerCallsNext(m)
         \/ HandlerReturnsWithoutNext(m)
         \/ HandlerFails(m)
         \/ HandlerResumes(m)
         \/ HandlerPropagates(m)
         \/ HandlerCatches(m)
         \/ ChainSucceeds(m)
         \/ \E thrower \in 0..MaxListeners : ChainFails(m, thrower)
         \/ Discard(m)

Spec == Init /\ [][Next]_vars

(***************************************************************************)
(* Registration alone: use() with any arguments, prefetch(), listeners.    *)
(***************************************************************************)
\* The argument lists use() is tried with: up to MaxArgs arguments, each a
\* function (one of MaxHandlers functions) or a value that is no function.
UseArgLists ==
    UNION { [1..n -> {NotAFunction} \cup (1..MaxHandlers)] : n \in 0..MaxArgs }

\* The arguments prefetch() is tried with.
CountValues == { Num(20), Str(<< 120 >>) }
GlobalValues == { Undef, Bool(FALSE), Bool(TRUE), Num(1) }

NextRegistration ==
    \/ \E args \in UseArgLists : Use(args)
    \/ OnConsumerError
    \/ \E count \in CountValues, global \in GlobalValues : Prefetch(count, global)

SpecRegistration == Init /\ [][NextRegistration]_vars

(***************************************************************************)
(* The Context operations, tried on the Context of a delivered message.    *)
(* InitPublish is the state of an application with one handler and one     *)
(* error listener after a successful connect() and the delivery of message *)
(* 1, whose handler has been entered and is about to use its Context; the   *)
(* application assigned any of "db", "bufferFrom" on app.context first.    *)
(***************************************************************************)
InitPublish ==
    /\ middlewares = << 1 >>
    /\ errorListeners = 1
    /\ appContext \in SUBSET {"db", "bufferFrom"}
    /\ connection = ConnHandle
    /\ consumerChannel = ConsumerHandle
    /\ publisherChannel = PublisherHandle
    /\ consumerTag = "ctag#1"
    /\ transportOpen = {ConnHandle, ConsumerHandle, PublisherHandle}
    /\ subscribed = TRUE
    /\ composed = << 1 >>
    /\ events = << "connection:created", "consumer-channel:created",
                   "publisher-channel:created", "consumer:listen" >>
    /\ connectPc = "done"
    /\ connectCall = [ called |-> TRUE, nMiddlewares |-> 1, nListeners |-> 1,
                       url |-> "string", socketOpts |-> "object" ]
    /\ connectResult = Resolved
    /\ startupError = NoError
    /\ closePc = "none"
    /\ closeFailedOn = "none"
    /\ unhandled = {}
    /\ delivered = 1
    /\ dispatches = (1 :>
          [ ctx |-> [ message |-> 1, connection |-> ConnHandle,
                      consumerChannel |-> ConsumerHandle,
                      publisherChannel |-> PublisherHandle,
                      state |-> {}, own |-> appContext ],
            index |-> 1,
            call |-> 0,
            stack |-> << [h |-> 1, i |-> 1, kind |-> "terminal", pc |-> "pre"] >>,
            ret |-> NoRet,
            kinds |-> << [h |-> 1, kind |-> "terminal"] >>,
            trace |-> << << "entry", 1 >> >>,
            raised |-> << >>,
            nexts |-> << >>,
            refused |-> << >>,
            ops |-> << >>,
            chainResult |-> NoRet,
            sink |-> << >>,
            listenerCalls |-> 0,
            onerrorThrew |-> FALSE,
            outcome |-> Pending ])
    /\ pubCall = [op |-> "none"]
    /\ pubLog = << >>
    /\ useCall = [called |-> TRUE, args |-> << 1 >>, before |-> << >>, threw |-> FALSE]
    /\ prefetchOpts = NoPrefetch
    /\ prefetchCall = [called |-> FALSE]
    /\ qos = << >>
    /\ listened = << << QueueName, "ctag#1" >> >>
    /\ connects = 1
    /\ closeCaller = "none"
    /\ closeResult = NotCalled

NextPublish ==
    \E m \in Messages, content \in ContentValues, options \in OptionValues,
       chResult \in BOOLEAN :
        \/ \E exchange \in NameValues, routingKey \in NameValues :
              ContextPublish(m, exchange, routingKey, content, options, chResult)
        \/ \E queue \in NameValues :
              ContextSendToQueue(m, queue, content, options, chResult)

SpecPublish == InitPublish /\ [][NextPublish]_vars

(***************************************************************************)
(* Deliveries to handlers that may never settle. InitListening is the      *)
(* state of an application with two handlers and one error listener after  *)
(* a successful connect(), before the first delivery.                      *)
(***************************************************************************)
InitListening ==
    /\ middlewares = << 1, 2 >>
    /\ errorListeners = 1
    /\ appContext = {}
    /\ connection = ConnHandle
    /\ consumerChannel = ConsumerHandle
    /\ publisherChannel = PublisherHandle
    /\ consumerTag = TagOf(1)
    /\ transportOpen = {ConnHandle, ConsumerHandle, PublisherHandle}
    /\ subscribed = TRUE
    /\ composed = << 1, 2 >>
    /\ events = << "connection:created", "consumer-channel:created",
                   "publisher-channel:created", "consumer:listen" >>
    /\ connectPc = "done"
    /\ connectCall = [ called |-> TRUE, nMiddlewares |-> 2, nListeners |-> 1,
                       url |-> "string", socketOpts |-> "object" ]
    /\ connectResult = Resolved
    /\ startupError = NoError
    /\ closePc = "none"
    /\ closeFailedOn = "none"
    /\ unhandled = {}
    /\ delivered = 0
    /\ dispatches = << >>
    /\ pubCall = [op |-> "none"]
    /\ pubLog = << >>
    /\ useCall = [called |-> TRUE, args |-> << 2 >>, before |-> << 1 >>, threw |-> FALSE]
    /\ prefetchOpts = NoPrefetch
    /\ prefetchCall = [called |-> FALSE]
    /\ qos = << >>
    /\ listened = << << QueueName, TagOf(1) >> >>
    /\ connects = 1
    /\ closeCaller = "none"
    /\ closeResult = NotCalled

HangKinds == {"wrap", "terminal", "reject", "hang"}

\* A step of the dispatch of message m.
DispatchStep(m) ==
    \/ DispatchPastEnd(m)
    \/ \E kind \in HangKinds : DispatchEnters(m, kind)
    \/ HandlerCallsNext(m)
    \/ HandlerReturnsWithoutNext(m)
    \/ HandlerFails(m)
    \/ HandlerHangs(m)
    \/ HandlerResumes(m)
    \/ HandlerPropagates(m)
    \/ ChainSucceeds(m)
    \/ \E thrower \in 0..MaxListeners : ChainFails(m, thrower)

NextHang ==
    \/ Deliver
    \/ \E m \in Messages : DispatchStep(m)
    \/ \E m \in Messages : Discard(m)

SpecHang == InitListening /\ [][NextHang]_vars

(***************************************************************************)
(* connect() and close() called one after the other by an application that *)
(* has registered one handler and one error listener (InitReady).          *)
(***************************************************************************)
InitReady ==
    /\ middlewares = << 1 >>
    /\ errorListeners = 1
    /\ appContext = {}
    /\ connection = Undefined
    /\ consumerChannel = Undefined
    /\ publisherChannel = Undefined
    /\ consumerTag = Undefined
    /\ transportOpen = {}
    /\ subscribed = FALSE
    /\ composed = << >>
    /\ events = << >>
    /\ connectPc = "idle"
    /\ connectCall = [called |-> FALSE]
    /\ connectResult = NotCalled
    /\ startupError = NoError
    /\ closePc = "none"
    /\ closeFailedOn = "none"
    /\ unhandled = {}
    /\ delivered = 0
    /\ dispatches = << >>
    /\ pubCall = [op |-> "none"]
    /\ pubLog = << >>
    /\ useCall = [called |-> TRUE, args |-> << 1 >>, before |-> << >>, threw |-> FALSE]
    /\ prefetchOpts = NoPrefetch
    /\ prefetchCall = [called |-> FALSE]
    /\ qos = << >>
    /\ listened = << >>
    /\ connects = 0
    /\ closeCaller = "none"
    /\ closeResult = NotCalled

NextReconnect ==
    \/ Connect("string", "undefined")
    \/ ConnectAgain("string", "undefined")
    \/ CreateConnection
    \/ CreateConsumerChannel
    \/ CreatePublisherChannel
    \/ AssertQueue
    \/ Subscribe
    \/ Listen
    \/ ConnectCatch
    \/ Close
    \/ CloseConsumerChannel
    \/ ClosePublisherChannel
    \/ CloseConnection

SpecReconnect == InitReady /\ [][NextReconnect]_vars

(***************************************************************************)
(* close() called by the application while messages are being handled:     *)
(* after a successful connect() (InitListening), with handlers that use    *)
(* their Context once the work they await has settled.                     *)
(***************************************************************************)
ShutdownKinds == {"wrap", "terminal", "ack", "send"}

NextShutdown ==
    \/ AssignContext("bufferFrom")
    \/ Deliver
    \/ \E m \in Messages :
         \/ DispatchPastEnd(m)
         \/ \E kind \in ShutdownKinds : DispatchEnters(m, kind)
         \/ HandlerCallsNext(m)
         \/ HandlerReturnsWithoutNext(m)
         \/ HandlerAwaitsWork(m)
         \/ \E chThrows \in BOOLEAN : HandlerAcksAfterWork(m, chThrows)
         \/ \E chResult \in BOOLEAN, chThrows \in BOOLEAN :
               HandlerSendsAfterWork(m, chResult, chThrows)
         \/ HandlerResumes(m)
         \/ HandlerPropagates(m)
         \/ ChainSucceeds(m)
         \/ \E thrower \in 0..MaxListeners : ChainFails(m, thrower)
         \/ Discard(m)
    \/ Close
    \/ CloseConsumerChannel
    \/ ClosePublisherChannel
    \/ CloseConnection

SpecShutdown == InitListening /\ [][NextShutdown]_vars

(***************************************************************************)
(* Properties.                                                             *)
(***************************************************************************)
Settled(d) == ~Runnable(d)
Built(d) == d.ctx # NoContext
KindsOf(d) == [k \in 1..Len(d.kinds) |-> d.kinds[k].kind]
Count(seq, x) == Cardinality({k \in 1..Len(seq) : seq[k] = x})
IsPrefix(a, b) == Len(a) <= Len(b) /\ a = SubSeq(b, 1, Len(a))

\* entry(1), ..., entry(k), exit(j), ..., exit(1): handlers by registration number.
Onion(k, j) ==
    [p \in 1..(k + j) |-> IF p <= k THEN << "entry", p >> ELSE << "exit", j + k + 1 - p >>]

\* What the error sink receives for an error of the dispatch of message m.
SinkOf(d, e) == << [event |-> "consumer:error", err |-> e, ctx |-> d.ctx] >>

\* C1: when every handler of the N registered ones records its entry, awaits
\* next() and records its exit, the trace of a dispatch is at every moment a
\* prefix of entry(1..N), exit(N..1), and it is the whole of it, with the chain
\* resolved, once the dispatch has settled.
C1_OnionOrder ==
    \A m \in DOMAIN dispatches :
        LET d == dispatches[m]
            N == Len(composed)
        IN (Built(d) /\ \A k \in 1..Len(d.kinds) : d.kinds[k].kind = "wrap")
           => /\ IsPrefix(d.trace, Onion(N, N))
              /\ Settled(d) => (d.trace = Onion(N, N) /\ d.chainResult = Ok)

C1_Witness ==
    \E m \in DOMAIN dispatches :
        /\ Len(composed) = 3
        /\ KindsOf(dispatches[m]) = << "wrap", "wrap", "wrap" >>
        /\ Settled(dispatches[m])
        /\ dispatches[m].trace = << << "entry", 1 >>, << "entry", 2 >>, << "entry", 3 >>,
                                    << "exit", 3 >>, << "exit", 2 >>, << "exit", 1 >> >>

\* C2: when the k-th handler returns without calling next (the handlers before
\* it await next() once), no handler registered after it is entered, the trace
\* is entry(1..k) followed by exit(k-1..1) once the dispatch has settled, and
\* the dispatch ends resolved with nothing sent to the error sink.
C2_ChainHalts ==
    \A m \in DOMAIN dispatches :
        LET d == dispatches[m]
            k == Len(d.kinds)
        IN (/\ k > 0
            /\ d.kinds[k].kind = "terminal"
            /\ \A j \in 1..(k - 1) : d.kinds[j].kind \in {"wrap", "catch"})
           => /\ \A p \in 1..Len(d.trace) : d.trace[p][2] <= k
              /\ IsPrefix(d.trace, Onion(k, k - 1))
              /\ d.sink = << >>
              /\ Settled(d) => /\ d.trace = Onion(k, k - 1)
                               /\ d.chainResult = Ok
                               /\ d.outcome = Resolved

C2_Witness ==
    \E m \in DOMAIN dispatches :
        /\ Len(composed) = 3
        /\ KindsOf(dispatches[m]) = << "wrap", "terminal" >>
        /\ Settled(dispatches[m])
        /\ dispatches[m].trace = << << "entry", 1 >>, << "entry", 2 >>, << "exit", 1 >> >>

\* C3: no handler is entered twice in a dispatch; a handler's second call of
\* next is answered with the error 'next() called multiple times'; and when no
\* handler before it catches, that error is what the error sink receives, once,
\* with the Context of the message.
C3_NextTwice ==
    \A m \in DOMAIN dispatches :
        LET d == dispatches[m] IN
        /\ \A p, q \in 1..Len(d.trace) :
              (p # q /\ d.trace[p][1] = "entry" /\ d.trace[q][1] = "entry")
              => d.trace[p][2] # d.trace[q][2]
        /\ \A k \in 1..Len(d.kinds) :
              LET h == d.kinds[k].h IN
              (Count(d.nexts, h) >= 2 /\ d.call = 0)
              => /\ Count(d.refused, h) = Count(d.nexts, h) - 1
                 /\ (d.stack # << >> /\ Top(d).h = h) => d.ret = Err(MultipleNextError)
                 /\ (Settled(d) /\ \A j \in 1..(k - 1) : d.kinds[j].kind # "catch")
                    => /\ d.chainResult = Err(MultipleNextError)
                       /\ d.sink = SinkOf(d, MultipleNextError)
                       /\ d.ctx.message = m

C3_Witness ==
    \E m \in DOMAIN dispatches :
        LET d == dispatches[m] IN
        /\ KindsOf(d) = << "wrap", "twice", "wrap" >>
        /\ Settled(d)
        /\ d.nexts = << 1, 2, 3, 2 >>
        /\ d.trace = << << "entry", 1 >>, << "entry", 2 >>, << "entry", 3 >>, << "exit", 3 >> >>
        /\ d.sink = SinkOf(d, MultipleNextError)

\* C4: after a handler has failed no handler is entered; the error sink is
\* invoked at most once per dispatch; a failure no earlier handler catches is
\* what the settled chain rejects with, and the sink has then received exactly
\* that error together with the Context built for the message; a chain that
\* resolved has sent nothing to the sink.
C4_FailureToSink ==
    \A m \in DOMAIN dispatches :
        LET d == dispatches[m]
            k == Len(d.kinds)
        IN /\ \A r \in 1..Len(d.raised) : \A p \in 1..Len(d.trace) :
                 p > d.raised[r].at => d.trace[p][1] # "entry"
           /\ Len(d.sink) <= 1
           /\ d.chainResult = Ok => d.sink = << >>
           /\ (Settled(d) /\ Failed(d.chainResult))
              => (d.sink = SinkOf(d, d.chainResult.err) /\ d.ctx.message = m)
           /\ (/\ Settled(d)
               /\ d.raised # << >>
               /\ \A j \in 1..(k - 1) : d.kinds[j].kind # "catch")
              => /\ Len(d.raised) = 1
                 /\ d.chainResult = Err(d.raised[1].err)
                 /\ d.raised[1].h = k

C4_Witness ==
    \E m \in DOMAIN dispatches :
        LET d == dispatches[m] IN
        /\ Len(composed) = 3
        /\ KindsOf(d) = << "wrap", "reject" >>
        /\ Settled(d)
        /\ d.trace = << << "entry", 1 >>, << "entry", 2 >> >>
        /\ d.sink = << [event |-> "consumer:error", err |-> HandlerError(2, "reject"),
                        ctx |-> d.ctx] >>
        /\ d.ctx.message = m

\* C5: the promise the consume callback returns to the transport never rejects.
C5_CallbackNeverRejects ==
    \A m \in DOMAIN dispatches : dispatches[m].outcome.state # "rejected"

\* C6: a call of Context.onerror(err) emits 'consumer:error' with the error and
\* the Context, and does not throw.
C6_OnerrorNeverThrows ==
    \A m \in DOMAIN dispatches :
        LET d == dispatches[m] IN
        (Settled(d) /\ Failed(d.chainResult))
        => (d.sink = SinkOf(d, d.chainResult.err) /\ ~d.onerrorThrew)

\* C7: a connect() called when no handler or no 'consumer:error' listener is
\* registered rejects with a configuration error, and nothing of the transport
\* has been touched: no step of startup ran, nothing is open or referenced, and
\* no notification was emitted.
C7_ConnectRefused ==
    (connectCall.called /\ (connectCall.nMiddlewares = 0 \/ connectCall.nListeners = 0))
    => /\ connectPc = "done"
       /\ connectResult.state = "rejected"
       /\ connectResult.err.kind = "config"
       /\ startupError = NoError
       /\ closePc = "none"
       /\ transportOpen = {}
       /\ connection = Undefined
       /\ consumerChannel = Undefined
       /\ publisherChannel = Undefined
       /\ ~subscribed
       /\ events = << >>

C7_Witness ==
    /\ connectCall.called
    /\ connectCall.nMiddlewares > 0
    /\ connectCall.nListeners = 0
    /\ connectResult = Rejected(ConfigError("An error handler is required."))
    /\ transportOpen = {}

\* C8: once connect() has returned after a failed startup, its promise is
\* rejected with the error that made startup fail.
C8_StartupErrorReraised ==
    (startupError # NoError /\ connectPc = "done")
    => connectResult = Rejected(startupError)

\* C9: once the cleanup that follows a failed startup has ended, nothing is left
\* open at the transport or referenced by the application, but for the one
\* resource whose own close failed.
C9_StartupFailureClosesAll ==
    (startupError # NoError /\ closePc \in {"done", "failed"})
    => LET spared == IF closePc = "failed" THEN {closeFailedOn} ELSE {}
       IN /\ transportOpen \subseteq
               { h \in {ConnHandle, ConsumerHandle, PublisherHandle} :
                   \/ h = ConnHandle /\ "connection" \in spared
                   \/ h = ConsumerHandle /\ "consumerChannel" \in spared
                   \/ h = PublisherHandle /\ "publisherChannel" \in spared }
          /\ "connection" \notin spared => connection = Undefined
          /\ "consumerChannel" \notin spared => consumerChannel = Undefined
          /\ "publisherChannel" \notin spared => publisherChannel = Undefined

\* The bytes the payload must have for each content the calls are tried with:
\* the text itself, the JSON text of an object, the bytes of a buffer.
ExpectedBytes(content) ==
    CASE content = Str(TextHi) -> << 104, 105 >>
      [] content = Str(TextCafe) -> << 99, 97, 102, 195, 169 >>
      [] content = Obj(<< << << 97 >>, Num(1) >> >>) -> << 123, 34, 97, 34, 58, 49, 125 >>
      [] content = Obj(<< << << 97 >>, Str(<< 34, 120 >>) >>, << << 98 >>, Null >> >>) ->
            << 123, 34, 97, 34, 58, 34, 92, 34, 120, 34, 44,
               34, 98, 34, 58, 110, 117, 108, 108, 125 >>
      [] content = Null -> << 110, 117, 108, 108 >>
      [] content = Buf(1, << 0, 255 >>) -> << 0, 255 >>

ValidContents == { c \in ContentValues : c.type \in {"string", "object", "buffer"} }

\* The last call had names that are text, a content that is text, an object or
\* a buffer, and options that are an object or left out.
ValidCall ==
    /\ pubCall.op # "none"
    /\ LET n == Len(pubCall.args) IN
       /\ \A k \in 1..(n - 2) : pubCall.args[k].type = "string"
       /\ pubCall.args[n - 1] \in ValidContents
       /\ pubCall.args[n].type \in {"undefined", "object"}

\* C10: a publish / sendToQueue call with valid arguments resolves with the
\* result of the publisher channel's operation of the same name, which was
\* called exactly once, with the names given and a buffer holding the expected
\* bytes (the very buffer given, when the content is one).
C10_PublishDelegates ==
    ValidCall
    => LET n == Len(pubCall.args)
           content == pubCall.args[n - 1]
       IN /\ pubCall.outcome.state = "resolved"
          /\ Len(pubLog) = pubCall.logBefore + 1
          /\ LET sent == pubLog[Len(pubLog)] IN
             /\ sent.call.op = pubCall.op
             /\ sent.call.content.type = "buffer"
             /\ sent.call.content.bytes = ExpectedBytes(content)
             /\ IsBuffer(content) => sent.call.content = content
             /\ sent.result = pubCall.outcome.value

\* The errors the argument checks of publish / sendToQueue throw.
ValidationErrors ==
    { TypeError("[exchange] must be a string."),
      TypeError("[routingKey] must be a string."),
      TypeError("[queue] must be a string"),
      TypeError("[content] must be a string, object or an instance of Buffer."),
      TypeError("[options] must be an object.") }

\* The last call had a name that is no text, or a content that is neither text,
\* structured data nor a buffer (a function, a number), or options that are
\* given and are no option set (a text, null).
InvalidCall ==
    /\ pubCall.op # "none"
    /\ LET n == Len(pubCall.args) IN
       \/ \E k \in 1..(n - 2) : pubCall.args[k].type # "string"
       \/ pubCall.args[n - 1].type \in {"function", "number", "undefined", "boolean"}
       \/ pubCall.args[n].type \notin {"undefined", "object"}

\* C11: a publish / sendToQueue call with an argument that violates the type
\* constraints rejects with one of the type-validation errors, and the
\* publisher channel has received no call from it.
C11_InvalidArgumentsRejected ==
    InvalidCall
    => /\ pubCall.outcome.state = "rejected"
       /\ pubCall.outcome.err \in ValidationErrors
       /\ Len(pubLog) = pubCall.logBefore

Range(seq) == { seq[k] : k \in 1..Len(seq) }

\* A handle the transport returned to the application and has closed since.
Closed(h, createdEvent) == createdEvent \in Range(events) /\ h \notin transportOpen

\* C13: once the connection (the consumer channel, the publisher channel) the
\* application opened has closed, 'connection:closed' ('consumer-channel:closed',
\* 'publisher-channel:closed') has been emitted.
C13_ClosesNotified ==
    /\ Closed(ConnHandle, "connection:created") => "connection:closed" \in Range(events)
    /\ Closed(ConsumerHandle, "consumer-channel:created")
          => "consumer-channel:closed" \in Range(events)
    /\ Closed(PublisherHandle, "publisher-channel:created")
          => "publisher-channel:closed" \in Range(events)

\* The composed handler has been invoked for the dispatch, once: dispatch(0) is
\* being called, or the first handler has been entered.
InvokedOnce(d) ==
    \/ d.call = 1 /\ d.index = 0 /\ d.trace = << >>
    \/ d.index >= 1 /\ Count(d.trace, << "entry", composed[1] >>) = 1

\* C14: every delivered message has one Context, which carries that message and
\* a state bag that is empty when the chain starts, and the composed handler was
\* invoked once with it; no two deliveries have the same Context.
C14_OneContextPerMessage ==
    /\ \A m \in DOMAIN dispatches :
          LET d == dispatches[m] IN
          /\ Built(d)
          /\ d.ctx.message = m
          /\ d.ctx.state = {}
          /\ InvokedOnce(d)
    /\ \A m1, m2 \in DOMAIN dispatches :
          m1 # m2 => dispatches[m1].ctx # dispatches[m2].ctx

\* The handlers a dispatch has entered.
Entered(d) == { d.trace[p][2] : p \in { q \in 1..Len(d.trace) : d.trace[q][1] = "entry" } }

\* C16: once the chain is composed no step changes it, whatever is registered
\* afterwards, and a dispatch enters handlers of the composed chain only.
C16_ChainFrozen ==
    [][ /\ composed # << >> => composed' = composed
        /\ \A m \in DOMAIN dispatches' : Entered(dispatches'[m]) \subseteq Range(composed')
      ]_vars

\* A handler was registered after the chain of two handlers was composed, and a
\* message delivered after that ran through exactly the two.
C16_Witness ==
    /\ composed = << 1, 2 >>
    /\ middlewares = << 1, 2, 3 >>
    /\ useCall.before = composed
    /\ \E m \in DOMAIN dispatches :
          /\ Settled(dispatches[m])
          /\ dispatches[m].trace = Onion(2, 2)

IsLifecycle(e) ==
    e \in {"connection:created", "consumer-channel:created",
           "publisher-channel:created", "consumer:listen"}

\* C18: the creation and listen notifications of a connect() come in the order
\* connection:created, consumer-channel:created, publisher-channel:created,
\* consumer:listen; consumer:listen is emitted at most once, with the queue name
\* and the consumer tag the subscription returned, and not at all when startup
\* fails.
C18_LifecycleOrder ==
    /\ IsPrefix(SelectSeq(events, IsLifecycle),
                << "connection:created", "consumer-channel:created",
                   "publisher-channel:created", "consumer:listen" >>)
    /\ Count(events, "consumer:listen") <= 1
    /\ "consumer:listen" \in Range(events)
          => /\ consumerTag = TagOf(connects)
             /\ listened = << << QueueName, TagOf(connects) >> >>
    /\ startupError # NoError => "consumer:listen" \notin Range(events)

C15_HungBlocksOnlyItself ==
    (\E h \in DOMAIN dispatches : Suspended(dispatches[h]))
    => /\ \A m \in DOMAIN dispatches :
             LET d == dispatches[m] IN
             /\ InvokedOnce(d)
             /\ (Runnable(d) /\ ~Suspended(d)) => ENABLED DispatchStep(m)
       /\ ( /\ \A m \in DOMAIN dispatches : Suspended(dispatches[m])
            /\ subscribed
            /\ delivered < MaxMessages )
          => ENABLED Deliver

\* The dispatch of message 1 is suspended in its second handler, and message 2,
\* delivered after it, ran through both handlers and settled.
C15_Witness ==
    /\ {1, 2} \subseteq DOMAIN dispatches
    /\ Suspended(dispatches[1])
    /\ KindsOf(dispatches[1]) = << "wrap", "hang" >>
    /\ Settled(dispatches[2])
    /\ dispatches[2].trace = Onion(2, 2)
    /\ dispatches[2].chainResult = Ok

\* The handles of a kind the transport holds open.
OpenOf(kind) == { h \in transportOpen : \E n \in 1..connects : h = HandleOf(kind, n) }

\* C20: whenever no connect() and no close() is in progress, and no startup
\* step and no close has failed (the cleanup after a failure is C9's subject),
\* every handle the transport holds open is one the application references,
\* and at most one connection, one consumer channel and one publisher channel
\* are open.
C20_OpenIsReferenced ==
    ( /\ connectPc \in {"idle", "done"}
      /\ CloseAtRest
      /\ startupError = NoError
      /\ closeFailedOn = "none" )
    => /\ transportOpen \subseteq {connection, consumerChannel, publisherChannel}
       /\ \A kind \in HandleKindNames : Cardinality(OpenOf(kind)) <= 1

\* The last prefetch() call had a numeric count and a boolean global, or no global.
ValidPrefetchCall ==
    /\ prefetchCall.called
    /\ prefetchCall.count.type = "number"
    /\ prefetchCall.global.type \in {"boolean", "undefined"}

\* C12: a prefetch(count, global) call with a numeric count and a boolean global
\* (false when left out) does not throw and records exactly these options, and
\* once connect() has subscribed, the consumer channel has received a prefetch
\* call with these options.
C12_PrefetchApplied ==
    ValidPrefetchCall
    => LET global == IF prefetchCall.global.type = "undefined" THEN Bool(FALSE)
                     ELSE prefetchCall.global
       IN /\ ~prefetchCall.threw
          /\ prefetchOpts = [set |-> TRUE, count |-> prefetchCall.count, global |-> global]
          /\ subscribed =>
                /\ qos # << >>
                /\ qos[Len(qos)] = [channel |-> consumerChannel,
                                    count |-> prefetchCall.count, global |-> global]

\* C17: after a use() call whose arguments are all functions, the handler
\* sequence is the sequence before the call followed by the arguments in the
\* order given; after a use() call with an argument that is no function, which
\* throws, the sequence is the one before the call.
C17_UseAppends ==
    useCall.called
    => /\ useCall.threw <=> (\E k \in 1..Len(useCall.args) : useCall.args[k] = NotAFunction)
       /\ ~useCall.threw => middlewares = useCall.before \o useCall.args
       /\ useCall.threw => middlewares = useCall.before

\* A handler is registered, and a later call with a function followed by a
\* value that is no function threw and left the sequence as it was.
C17_Witness ==
    /\ useCall.called
    /\ useCall.threw
    /\ useCall.before = << 2 >>
    /\ useCall.args = << 3, NotAFunction >>
    /\ middlewares = << 2 >>

\* C21: no dispatch performs an operation (ack, sendToQueue) through its
\* Context on a channel after close() has closed the consumer channel and the
\* publisher channel that Context holds.
C21_NoOperationAfterClose ==
    \A m \in DOMAIN dispatches :
        \A k \in 1..Len(dispatches[m].ops) :
            LET o == dispatches[m].ops[k] IN o.afterClose => o.open

====
